---- MODULE Spec2Model ----
(***************************************************************************)
(* The reconnecting WebSocket client (type Client): Start/Stop/Send, the   *)
(* run loop with its linear backoff, subscribe (dial and install), the     *)
(* keepalive ping goroutine, the read loop and closeConn.                  *)
(*                                                                         *)
(* Goroutines are modelled as processes with a program counter each; one   *)
(* action is one step between two points where another goroutine can       *)
(* observe or change shared state (c.conn, c.mu, c.writeMu, c.ctx, c.wg,   *)
(* the transport).  A frame write is two steps, begin and end, so that two *)
(* writes in progress on one connection are visible as a state.            *)
(***************************************************************************)
EXTENDS Integers, FiniteSets, Sequences, TLC

\* ------------------------------------------------------------------ bounds
MaxRetriesBound == 3    \* config.MaxRetries ranges over 0..MaxRetriesBound
MaxIntervalBound == 1   \* config.RetryInterval ranges over 1..MaxIntervalBound
MaxConns == 2           \* successful dials of one session
MaxMsgs == 1            \* messages received on one connection
MaxStartCalls == 2      \* calls of Start()

ConnIds == 1..MaxConns
RunIds  == {"r1", "r2"}   \* slots for run goroutines (startOnce lets one be used)
StopIds == {"t1", "t2"}   \* caller threads of Stop()
SendIds == {"s1"}         \* caller threads of Send()
ServerIdents == {"a", "b", "c"}   \* client identifiers seen by the server
\* everything that can call Stop(): the caller threads, and the run goroutines
\* while they execute a callback
StopCallers == StopIds \cup RunIds

VARIABLES
    config,         \* ClientConfig: MaxRetries, RetryInterval
    conn,           \* c.conn: 0 is nil, else the id of the installed connection
    mu,             \* c.mu is write-locked (closeConn in progress)
    writeMu,        \* c.writeMu is locked
    startOnce,      \* c.startOnce has run
    stopOnce,       \* c.stopOnce: "fresh", "running", "done"
    wg,             \* c.wg counter
    cancelled,      \* c.ctx is cancelled
    retryCount,     \* c.retryCount
    pc,             \* run goroutines: position of each
    local,          \* run goroutines: locals (dialed conn, read's conn, timer)
    transport,      \* each connection: "undialed", "open", "broken", "closed"
    writing,        \* each connection: frame writes in progress, by kind
    pingCancelled,  \* pingCtx of each connection's keepalive is cancelled
    pingpc,         \* keepalive goroutines: position of each; "exited" and "failed"
                    \* are both returned, "failed" after calling OnError(err)
    pingConn,       \* keepalive goroutines: conn read by getConn
    sendpc,         \* Send callers: position
    sendConn,       \* Send callers: conn read by getConn
    sendResult,     \* Send callers: what the last call returned
    stoppc,         \* Stop callers (threads, and run goroutines inside a callback): position
    startCalls,     \* number of Start() calls made
    calls,          \* callback invocations so far, by callback
    obs,            \* the connection installed last: its id, its OnMessage and
                    \* OnDisconnect invocations, and what made its ReadMessage
                    \* fail: "none" (it has not), "peer", "local"
    episode,        \* since the last successful dial: dial attempts, dial OnErrors
    history,        \* counts of c.cancel() calls and of Stop's closeConn calls;
                    \* the retryCount that the last "retryCount = 0" overwrote
    clients,        \* server: the registry, the identifiers with an entry
    handle,         \* server: each identifier's connection: "none", "open", "closed"
    readLoop,       \* server: each identifier's read loop: "none", "reading",
                    \* "failed" (terminal read error seen), "exited"
    bcast,          \* server: the Broadcast call in progress and its outcome
    shutdown,       \* server: the Shutdown call: position, handles left to close
    srv             \* server: per identifier, removals from the registry,
                    \* OnDisconnect invocations and what closed the connection
                    \* ("none", "peer", "shutdown"); what the last Send returned

vars == <<config, conn, mu, writeMu, startOnce, stopOnce, wg, cancelled,
          retryCount, pc, local, transport, writing, pingCancelled, pingpc,
          pingConn, sendpc, sendConn, sendResult, stoppc, startCalls, calls,
          obs, episode, history,
          clients, handle, readLoop, bcast, shutdown, srv>>

\* variable groups, for UNCHANGED
serverVars == <<clients, handle, readLoop, bcast, shutdown, srv>>
clientVars == <<config, conn, mu, writeMu, startOnce, stopOnce, wg, cancelled,
                retryCount, pc, local, transport, writing, pingCancelled, pingpc,
                pingConn, sendpc, sendConn, sendResult, stoppc, startCalls, calls,
                obs, episode, history>>
sendVars == <<sendpc, sendConn, sendResult>>
pingVars == <<pingCancelled, pingpc, pingConn>>
onceVars == <<startOnce, stopOnce, startCalls>>

NoWrites == [msg |-> 0, ping |-> 0, close |-> 0]

\* no Broadcast call in progress
BcastIdle == [pc |-> "idle", snapshot |-> {}, closedAtSnapshot |-> {}, todo |-> {},
              attempts |-> [id \in ServerIdents |-> 0], received |-> {},
              failed |-> {}, onError |-> 0]

LocalInit == [conn |-> 0, readConn |-> 0, waitTime |-> 0, elapsed |-> 0, waited |-> 0]

\* NewClientConfig + NewClient: nothing connected, nothing started.
Init ==
    /\ config \in [MaxRetries : 0..MaxRetriesBound, RetryInterval : 1..MaxIntervalBound]
    /\ conn = 0
    /\ mu = FALSE
    /\ writeMu = FALSE
    /\ startOnce = FALSE
    /\ stopOnce = "fresh"
    /\ wg = 0
    /\ cancelled = FALSE
    /\ retryCount = 0
    /\ pc = [r \in RunIds |-> "unborn"]
    /\ local = [r \in RunIds |-> LocalInit]
    /\ transport = [k \in ConnIds |-> "undialed"]
    /\ writing = [k \in ConnIds |-> NoWrites]
    /\ pingCancelled = [k \in ConnIds |-> FALSE]
    /\ pingpc = [k \in ConnIds |-> "none"]
    /\ pingConn = [k \in ConnIds |-> 0]
    /\ sendpc = [t \in SendIds |-> "idle"]
    /\ sendConn = [t \in SendIds |-> 0]
    /\ sendResult = [t \in SendIds |-> "none"]
    /\ stoppc = [t \in StopCallers |-> "idle"]
    /\ startCalls = 0
    /\ calls = [Started |-> 0, Stopped |-> 0, OnConnect |-> 0, OnErrorMax |-> 0]
    /\ obs = [conn |-> 0, msgs |-> 0, disc |-> 0, cause |-> "none"]
    /\ episode = [dials |-> 0, dialErrors |-> 0]
    /\ history = [cancels |-> 0, stopCloses |-> 0, overwritten |-> 0]
    /\ clients = {}
    /\ handle = [id \in ServerIdents |-> "none"]
    /\ readLoop = [id \in ServerIdents |-> "none"]
    /\ bcast = BcastIdle
    /\ shutdown = [pc |-> "idle", todo |-> {}]
    /\ srv = [removed |-> [id \in ServerIdents |-> 0],
              onDisconnect |-> [id \in ServerIdents |-> 0],
              cause |-> [id \in ServerIdents |-> "none"],
              lastSend |-> "none"]

\* ----------------------------------------------------------------- helpers
Bump(rec, field) == [rec EXCEPT ![field] = @ + 1]

\* the connection a new dial would create
NextConn == CHOOSE k \in ConnIds : transport[k] = "undialed" /\ \A j \in 1..(k-1) : transport[j] # "undialed"

CanDial == \E k \in ConnIds : transport[k] = "undialed"

\* frame writes in progress on connection k
InFlight(k) == writing[k].msg + writing[k].ping + writing[k].close

\* connections dialed and not yet Close()d by the client
Live == {k \in ConnIds : transport[k] \in {"open", "broken"}}

\* ------------------------------------------------------------------- Start
\* a run goroutine slot not yet used
FreeRun == IF pc["r1"] = "unborn" THEN "r1" ELSE "r2"

\* Start without the sync.Once: every call spawns a run goroutine
StartNoOnce ==
    /\ startCalls < MaxStartCalls
    /\ pc[FreeRun] = "unborn"
    /\ startCalls' = startCalls + 1
    /\ startOnce' = TRUE
    /\ wg' = wg + 1
    /\ pc' = [pc EXCEPT ![FreeRun] = "top"]
    /\ UNCHANGED <<serverVars, config, conn, mu, writeMu, stopOnce, cancelled, retryCount, local,
                   transport, writing, pingVars, sendVars, stoppc, calls, obs,
                   episode, history>>

\* Start(): startOnce.Do { wg.Add(1); go run() }
Start ==
    /\ startCalls < MaxStartCalls
    /\ startCalls' = startCalls + 1
    /\ IF ~startOnce
         THEN /\ startOnce' = TRUE
              /\ wg' = wg + 1
              /\ pc' = [pc EXCEPT ![FreeRun] = "top"]
         ELSE UNCHANGED <<startOnce, wg, pc>>
    /\ UNCHANGED <<serverVars, config, conn, mu, writeMu, stopOnce, cancelled, retryCount, local,
                   transport, writing, pingVars, sendVars, stoppc, calls, obs,
                   episode, history>>

\* --------------------------------------------------------------- closeConn
\* closeConn, first half: take c.mu; with a connection installed, start
\* writing the close frame on it (c.writeMu is not taken).
closeConnBegin ==
    /\ ~mu
    /\ conn # 0
    /\ mu' = TRUE
    /\ writing' = [writing EXCEPT ![conn] = Bump(@, "close")]

\* closeConn, second half: the close frame is out, Close() the transport,
\* clear c.conn, release c.mu.
closeConnEnd ==
    /\ mu
    /\ writing' = [writing EXCEPT ![conn].close = @ - 1]
    /\ transport' = [transport EXCEPT ![conn] = "closed"]
    /\ conn' = 0
    /\ mu' = FALSE

\* ---------------------------------------------------------------- run loop
\* run goroutine r returns: the deferred wg.Done() of Start's closure
runReturn(r) ==
    /\ pc' = [pc EXCEPT ![r] = "done"]
    /\ wg' = wg - 1

\* a head of the for loop that dials without looking at c.ctx
run_selectIgnoresCtx(r) ==
    /\ pc[r] = "top"
    /\ pc' = [pc EXCEPT ![r] = "dial"]
    /\ episode' = Bump(episode, "dials")
    /\ UNCHANGED <<serverVars, config, conn, mu, writeMu, onceVars, wg, cancelled, retryCount,
                   local, transport, writing, pingVars, sendVars, stoppc, calls, obs,
                   history>>

\* run: the select at the head of the for loop; default starts subscribe's Dial
run_select(r) ==
    /\ pc[r] = "top"
    /\ IF cancelled
         THEN /\ runReturn(r)
              /\ UNCHANGED episode
         ELSE /\ pc' = [pc EXCEPT ![r] = "dial"]
              /\ episode' = Bump(episode, "dials")
              /\ UNCHANGED wg
    /\ UNCHANGED <<serverVars, config, conn, mu, writeMu, onceVars, cancelled, retryCount, local,
                   transport, writing, pingVars, sendVars, stoppc, calls, obs,
                   history>>

\* subscribe: dialer.Dial returns an error
subscribe_dialFail(r) ==
    /\ pc[r] = "dial"
    /\ pc' = [pc EXCEPT ![r] = "dialfail"]
    /\ local' = [local EXCEPT ![r].waited = 0]
    /\ UNCHANGED <<serverVars, config, conn, mu, writeMu, onceVars, wg, cancelled, retryCount,
                   transport, writing, pingVars, sendVars, stoppc, calls, obs,
                   episode, history>>

\* subscribe: dialer.Dial returns a connection
subscribe_dialOk(r) ==
    /\ pc[r] = "dial"
    /\ CanDial
    /\ transport' = [transport EXCEPT ![NextConn] = "open"]
    /\ local' = [local EXCEPT ![r].conn = NextConn, ![r].waited = 0]
    /\ pc' = [pc EXCEPT ![r] = "dialed"]
    /\ UNCHANGED <<serverVars, config, conn, mu, writeMu, onceVars, wg, cancelled, retryCount,
                   writing, pingVars, sendVars, stoppc, calls, obs,
                   episode, history>>

\* subscribe after the dial: Started(), setConn(conn), OnConnect(), return nil
subscribe_install(r) ==
    /\ pc[r] = "dialed"
    /\ ~mu
    /\ conn' = local[r].conn
    /\ calls' = Bump(Bump(calls, "Started"), "OnConnect")
    /\ obs' = [conn |-> local[r].conn, msgs |-> 0, disc |-> 0, cause |-> "none"]
    /\ pc' = [pc EXCEPT ![r] = "connected"]
    /\ UNCHANGED <<serverVars, config, mu, writeMu, onceVars, wg, cancelled, retryCount, local,
                   transport, writing, pingVars, sendVars, stoppc,
                   episode, history>>

\* run, subscribe returned nil, but c.retryCount is left as it is
run_connectedNoReset(r) ==
    /\ pc[r] = "connected"
    /\ episode' = [dials |-> 0, dialErrors |-> 0]
    /\ history' = [history EXCEPT !.overwritten = retryCount]
    /\ pingpc' = [pingpc EXCEPT ![local[r].conn] = "select"]
    /\ pc' = [pc EXCEPT ![r] = "readentry"]
    /\ UNCHANGED <<serverVars, config, conn, mu, writeMu, onceVars, wg, cancelled, retryCount, local,
                   transport, writing, pingCancelled, pingConn, sendVars, stoppc,
                   calls, obs>>

\* run, subscribe returned nil: retryCount = 0; go c.ping(pingCtx)
run_connected(r) ==
    /\ pc[r] = "connected"
    /\ retryCount' = 0
    /\ episode' = [dials |-> 0, dialErrors |-> 0]
    /\ history' = [history EXCEPT !.overwritten = retryCount]
    /\ pingpc' = [pingpc EXCEPT ![local[r].conn] = "select"]
    /\ pc' = [pc EXCEPT ![r] = "readentry"]
    /\ UNCHANGED <<serverVars, config, conn, mu, writeMu, onceVars, wg, cancelled, local,
                   transport, writing, pingCancelled, pingConn, sendVars, stoppc,
                   calls, obs>>

\* the retry limit is reached (checked after retryCount++)
retriesExceededOffByOne(rc) == rc > config.MaxRetries

retriesExceeded(rc) == rc >= config.MaxRetries

\* the delay before the next attempt, the same after every failure
waitTimeFixed(rc) == config.RetryInterval

\* waitTime := time.Duration(c.retryCount) * c.config.RetryInterval
waitTime(rc) == rc * config.RetryInterval

\* run, subscribe returned an error: OnError(err); retryCount++; give up with
\* OnError(max retries exceeded), or start the backoff timer
run_dialFailed(r) ==
    /\ pc[r] = "dialfail"
    /\ retryCount' = retryCount + 1
    /\ episode' = Bump(episode, "dialErrors")
    /\ IF retriesExceeded(retryCount')
         THEN /\ calls' = Bump(calls, "OnErrorMax")
              /\ runReturn(r)
              /\ UNCHANGED local
         ELSE /\ UNCHANGED calls
              /\ local' = [local EXCEPT ![r].waitTime = waitTime(retryCount'),
                                        ![r].elapsed = 0]
              /\ pc' = [pc EXCEPT ![r] = "wait"]
              /\ UNCHANGED wg
    /\ UNCHANGED <<serverVars, config, conn, mu, writeMu, onceVars, cancelled, transport, writing,
                   pingVars, sendVars, stoppc, obs, history>>

\* time passes while run waits in the backoff select
Tick(r) ==
    /\ pc[r] = "wait"
    /\ local[r].elapsed < local[r].waitTime
    /\ local' = [local EXCEPT ![r].elapsed = @ + 1]
    /\ UNCHANGED <<serverVars, config, conn, mu, writeMu, onceVars, wg, cancelled, retryCount, pc,
                   transport, writing, pingVars, sendVars, stoppc, calls, obs,
                   episode, history>>

\* a backoff wait that looks at c.ctx only once the timer has fired
run_waitCancelledAfterTimer(r) ==
    /\ pc[r] = "wait"
    /\ cancelled
    /\ local[r].elapsed = local[r].waitTime
    /\ runReturn(r)
    /\ local' = [local EXCEPT ![r].waitTime = 0, ![r].elapsed = 0]
    /\ UNCHANGED <<serverVars, config, conn, mu, writeMu, onceVars, cancelled, retryCount,
                   transport, writing, pingVars, sendVars, stoppc, calls, obs,
                   episode, history>>

\* backoff select, case <-c.ctx.Done(): return
run_waitCancelled(r) ==
    /\ pc[r] = "wait"
    /\ cancelled
    /\ runReturn(r)
    /\ local' = [local EXCEPT ![r].waitTime = 0, ![r].elapsed = 0]
    /\ UNCHANGED <<serverVars, config, conn, mu, writeMu, onceVars, cancelled, retryCount,
                   transport, writing, pingVars, sendVars, stoppc, calls, obs,
                   episode, history>>

\* backoff select, case <-time.After(waitTime): continue
run_waitElapsed(r) ==
    /\ pc[r] = "wait"
    /\ local[r].elapsed = local[r].waitTime
    /\ local' = [local EXCEPT ![r].waited = local[r].elapsed,
                              ![r].waitTime = 0, ![r].elapsed = 0]
    /\ pc' = [pc EXCEPT ![r] = "top"]
    /\ UNCHANGED <<serverVars, config, conn, mu, writeMu, onceVars, wg, cancelled, retryCount,
                   transport, writing, pingVars, sendVars, stoppc, calls, obs,
                   episode, history>>

\* ---------------------------------------------------------------- read loop
\* read: conn := c.getConn(); nil returns at once
read_getConn(r) ==
    /\ pc[r] = "readentry"
    /\ ~mu
    /\ local' = [local EXCEPT ![r].readConn = conn]
    /\ pc' = [pc EXCEPT ![r] = IF conn = 0 THEN "afterread" ELSE "readloop"]
    /\ UNCHANGED <<serverVars, config, conn, mu, writeMu, onceVars, wg, cancelled, retryCount,
                   transport, writing, pingVars, sendVars, stoppc, calls, obs,
                   episode, history>>

\* read: the select at the head of the loop; default calls conn.ReadMessage()
read_select(r) ==
    /\ pc[r] = "readloop"
    /\ pc' = [pc EXCEPT ![r] = IF cancelled THEN "afterread" ELSE "reading"]
    /\ UNCHANGED <<serverVars, config, conn, mu, writeMu, onceVars, wg, cancelled, retryCount, local,
                   transport, writing, pingVars, sendVars, stoppc, calls, obs,
                   episode, history>>

\* read: ReadMessage returns a message; OnMessage(msg)
read_message(r) ==
    /\ pc[r] = "reading"
    /\ transport[local[r].readConn] = "open"
    /\ obs.msgs < MaxMsgs
    /\ obs' = Bump(obs, "msgs")
    /\ pc' = [pc EXCEPT ![r] = "readloop"]
    /\ UNCHANGED <<serverVars, config, conn, mu, writeMu, onceVars, wg, cancelled, retryCount, local,
                   transport, writing, pingVars, sendVars, stoppc, calls,
                   episode, history>>

\* read: ReadMessage returns an error, because the peer or the network
\* failed ("broken") or because the client closed the transport ("closed")
read_error(r) ==
    /\ pc[r] = "reading"
    /\ transport[local[r].readConn] \in {"broken", "closed"}
    /\ obs' = [obs EXCEPT !.cause =
                    IF transport[local[r].readConn] = "broken" THEN "peer" ELSE "local"]
    /\ pc' = [pc EXCEPT ![r] = "readerr"]
    /\ UNCHANGED <<serverVars, config, conn, mu, writeMu, onceVars, wg, cancelled, retryCount, local,
                   transport, writing, pingVars, sendVars, stoppc, calls,
                   episode, history>>

\* read, after an error, without looking at c.ctx: OnDisconnect(err); return
read_disconnectAlways(r) ==
    /\ pc[r] = "readerr"
    /\ obs' = Bump(obs, "disc")
    /\ pc' = [pc EXCEPT ![r] = "afterread"]
    /\ UNCHANGED <<serverVars, config, conn, mu, writeMu, onceVars, wg, cancelled, retryCount, local,
                   transport, writing, pingVars, sendVars, stoppc, calls,
                   episode, history>>

\* read, after an error, without the return: the loop goes on reading
read_disconnectNoReturn(r) ==
    /\ pc[r] = "readerr"
    /\ obs' = IF cancelled THEN obs ELSE Bump(obs, "disc")
    /\ pc' = [pc EXCEPT ![r] = "readloop"]
    /\ UNCHANGED <<serverVars, config, conn, mu, writeMu, onceVars, wg, cancelled, retryCount, local,
                   transport, writing, pingVars, sendVars, stoppc, calls,
                   episode, history>>

\* read, after an error: if c.ctx.Err() == nil { OnDisconnect(err) }; return
read_disconnect(r) ==
    /\ pc[r] = "readerr"
    /\ obs' = IF cancelled THEN obs ELSE Bump(obs, "disc")
    /\ pc' = [pc EXCEPT ![r] = "afterread"]
    /\ UNCHANGED <<serverVars, config, conn, mu, writeMu, onceVars, wg, cancelled, retryCount, local,
                   transport, writing, pingVars, sendVars, stoppc, calls,
                   episode, history>>

\* run, after read() returned: pingCancel()
run_pingCancel(r) ==
    /\ pc[r] = "afterread"
    /\ pingCancelled' = [pingCancelled EXCEPT ![local[r].conn] = TRUE]
    /\ pc' = [pc EXCEPT ![r] = "closeConn"]
    /\ UNCHANGED <<serverVars, config, conn, mu, writeMu, onceVars, wg, cancelled, retryCount, local,
                   transport, writing, pingpc, pingConn, sendVars, stoppc, calls,
                   obs, episode, history>>

\* run, end of an iteration, with the closeConn() call left out
run_closeConnSkipped(r) ==
    /\ pc[r] = "closeConn"
    /\ ~mu
    /\ conn' = 0
    /\ pc' = [pc EXCEPT ![r] = "top"]
    /\ local' = [local EXCEPT ![r].conn = 0, ![r].readConn = 0]
    /\ UNCHANGED <<serverVars, config, mu, writeMu, onceVars, wg, cancelled, retryCount,
                   transport, writing, pingVars, sendVars, stoppc, calls, obs,
                   episode, history>>

\* run, end of an iteration: c.closeConn(), up to the close frame being written
run_closeConn(r) ==
    /\ pc[r] = "closeConn"
    /\ ~mu
    /\ IF conn = 0
         THEN /\ pc' = [pc EXCEPT ![r] = "top"]
              /\ local' = [local EXCEPT ![r].conn = 0, ![r].readConn = 0]
              /\ UNCHANGED <<mu, writing>>
         ELSE /\ closeConnBegin
              /\ pc' = [pc EXCEPT ![r] = "closing"]
              /\ UNCHANGED local
    /\ UNCHANGED <<serverVars, config, conn, writeMu, onceVars, wg, cancelled, retryCount,
                   transport, pingVars, sendVars, stoppc, calls, obs,
                   episode, history>>

\* run, end of an iteration: closeConn() closes the transport and clears c.conn
run_closeConnEnd(r) ==
    /\ pc[r] = "closing"
    /\ closeConnEnd
    /\ pc' = [pc EXCEPT ![r] = "top"]
    /\ local' = [local EXCEPT ![r].conn = 0, ![r].readConn = 0]
    /\ UNCHANGED <<serverVars, config, writeMu, onceVars, wg, cancelled, retryCount,
                   pingVars, sendVars, stoppc, calls, obs, episode, history>>

\* ------------------------------------------------------------- environment
\* the peer closes, the network fails or the read deadline passes
PeerBreak(k) ==
    /\ transport[k] = "open"
    /\ transport' = [transport EXCEPT ![k] = "broken"]
    /\ UNCHANGED <<serverVars, config, conn, mu, writeMu, onceVars, wg, cancelled, retryCount, pc,
                   local, writing, pingVars, sendVars, stoppc, calls, obs,
                   episode, history>>

\* outcomes of a frame write on connection k that is now finishing
WriteOutcomes(k) ==
    CASE transport[k] = "open"   -> {"ok"}
      [] transport[k] = "broken" -> {"ok", "err"}
      [] OTHER                   -> {"err"}

\* --------------------------------------------------------------- keepalive
\* ping: select, case <-ctx.Done(): return (pingCtx is a child of c.ctx)
ping_done(k) ==
    /\ pingpc[k] = "select"
    /\ cancelled \/ pingCancelled[k]
    /\ pingpc' = [pingpc EXCEPT ![k] = "exited"]
    /\ UNCHANGED <<serverVars, config, conn, mu, writeMu, onceVars, wg, cancelled, retryCount, pc,
                   local, transport, writing, pingCancelled, pingConn, sendVars,
                   stoppc, calls, obs, episode, history>>

\* ping: select, case <-ticker.C: conn := c.getConn(); nil waits for the next tick
ping_tick(k) ==
    /\ pingpc[k] = "select"
    /\ ~mu
    /\ conn # 0
    /\ pingConn' = [pingConn EXCEPT ![k] = conn]
    /\ pingpc' = [pingpc EXCEPT ![k] = "lock"]
    /\ UNCHANGED <<serverVars, config, conn, mu, writeMu, onceVars, wg, cancelled, retryCount, pc,
                   local, transport, writing, pingCancelled, sendVars,
                   stoppc, calls, obs, episode, history>>

\* ping: c.writeMu.Lock(); conn.WriteControl(PingMessage) starts
ping_writeBegin(k) ==
    /\ pingpc[k] = "lock"
    /\ ~writeMu
    /\ writeMu' = TRUE
    /\ writing' = [writing EXCEPT ![pingConn[k]] = Bump(@, "ping")]
    /\ pingpc' = [pingpc EXCEPT ![k] = "write"]
    /\ UNCHANGED <<serverVars, config, conn, mu, onceVars, wg, cancelled, retryCount, pc,
                   local, transport, pingCancelled, pingConn, sendVars,
                   stoppc, calls, obs, episode, history>>

\* ping's write end that treats a failed ping as a dead connection: it also
\* closes the transport and clears c.conn
ping_writeEndDropsConn(k) ==
    /\ pingpc[k] = "write"
    /\ writeMu' = FALSE
    /\ writing' = [writing EXCEPT ![pingConn[k]].ping = @ - 1]
    /\ pingConn' = [pingConn EXCEPT ![k] = 0]
    /\ \E res \in WriteOutcomes(pingConn[k]) :
         IF res = "err"
           THEN /\ pingpc' = [pingpc EXCEPT ![k] = "failed"]
                /\ conn' = IF conn = pingConn[k] THEN 0 ELSE conn
                /\ transport' = [transport EXCEPT ![pingConn[k]] = "closed"]
           ELSE /\ pingpc' = [pingpc EXCEPT ![k] = "select"]
                /\ UNCHANGED <<conn, transport>>
    /\ UNCHANGED <<serverVars, config, mu, onceVars, wg, cancelled, retryCount, pc,
                   local, pingCancelled, sendVars,
                   stoppc, calls, obs, episode, history>>

\* ping: WriteControl returns; c.writeMu.Unlock(); on an error OnError(err)
\* is called and the goroutine returns (position "failed")
ping_writeEnd(k) ==
    /\ pingpc[k] = "write"
    /\ writeMu' = FALSE
    /\ writing' = [writing EXCEPT ![pingConn[k]].ping = @ - 1]
    /\ pingConn' = [pingConn EXCEPT ![k] = 0]
    /\ \E res \in WriteOutcomes(pingConn[k]) :
         IF res = "err"
           THEN pingpc' = [pingpc EXCEPT ![k] = "failed"]
           ELSE pingpc' = [pingpc EXCEPT ![k] = "select"]
    /\ UNCHANGED <<serverVars, config, conn, mu, onceVars, wg, cancelled, retryCount, pc,
                   local, transport, pingCancelled, sendVars,
                   stoppc, calls, obs, episode, history>>

\* -------------------------------------------------------------------- Send
\* Send without the nil check: goes on to write on whatever getConn returned
Send_getConnUnchecked(t) ==
    /\ sendpc[t] = "idle"
    /\ ~mu
    /\ sendConn' = [sendConn EXCEPT ![t] = IF conn = 0 THEN 1 ELSE conn]
    /\ sendResult' = [sendResult EXCEPT ![t] = "none"]
    /\ sendpc' = [sendpc EXCEPT ![t] = "lock"]
    /\ UNCHANGED <<serverVars, config, conn, mu, writeMu, onceVars, wg, cancelled, retryCount, pc,
                   local, transport, writing, pingVars, stoppc, calls, obs,
                   episode, history>>

\* Send: conn := c.getConn(); nil returns "websocket client: not connected"
Send_getConn(t) ==
    /\ sendpc[t] = "idle"
    /\ ~mu
    /\ IF conn = 0
         THEN /\ sendResult' = [sendResult EXCEPT ![t] = "notconnected"]
              /\ UNCHANGED <<sendpc, sendConn>>
         ELSE /\ sendConn' = [sendConn EXCEPT ![t] = conn]
              /\ sendResult' = [sendResult EXCEPT ![t] = "none"]
              /\ sendpc' = [sendpc EXCEPT ![t] = "lock"]
    /\ UNCHANGED <<serverVars, config, conn, mu, writeMu, onceVars, wg, cancelled, retryCount, pc,
                   local, transport, writing, pingVars, stoppc, calls, obs,
                   episode, history>>

\* Send: c.writeMu.Lock(); SetWriteDeadline; conn.WriteJSON(msg) starts
Send_writeBegin(t) ==
    /\ sendpc[t] = "lock"
    /\ ~writeMu
    /\ writeMu' = TRUE
    /\ writing' = [writing EXCEPT ![sendConn[t]] = Bump(@, "msg")]
    /\ sendpc' = [sendpc EXCEPT ![t] = "write"]
    /\ UNCHANGED <<serverVars, config, conn, mu, onceVars, wg, cancelled, retryCount, pc,
                   local, transport, pingVars, sendConn, sendResult,
                   stoppc, calls, obs, episode, history>>

\* Send: WriteJSON returns; the deferred c.writeMu.Unlock(); return err or nil
Send_writeEnd(t) ==
    /\ sendpc[t] = "write"
    /\ writeMu' = FALSE
    /\ writing' = [writing EXCEPT ![sendConn[t]].msg = @ - 1]
    /\ sendConn' = [sendConn EXCEPT ![t] = 0]
    /\ \E res \in WriteOutcomes(sendConn[t]) :
         sendResult' = [sendResult EXCEPT ![t] = res]
    /\ sendpc' = [sendpc EXCEPT ![t] = "idle"]
    /\ UNCHANGED <<serverVars, config, conn, mu, onceVars, wg, cancelled, retryCount, pc,
                   local, transport, pingVars, stoppc, calls, obs,
                   episode, history>>

\* -------------------------------------------------------------------- Stop
\* Stop without the sync.Once: every caller runs the body
Stop_enterNoOnce(t) ==
    /\ stoppc[t] = "idle"
    /\ stopOnce' = "running"
    /\ cancelled' = TRUE
    /\ history' = Bump(history, "cancels")
    /\ stoppc' = [stoppc EXCEPT ![t] = "closeConn"]
    /\ UNCHANGED <<serverVars, config, conn, mu, writeMu, startOnce, startCalls, wg, retryCount, pc,
                   local, transport, writing, pingVars, sendVars, calls, obs,
                   episode>>

\* Stop: stopOnce.Do: the first caller runs the body, starting with
\* c.cancel(); a caller arriving while it runs waits for it; later callers
\* return at once
Stop_enter(t) ==
    /\ stoppc[t] = "idle"
    /\ CASE stopOnce = "fresh" ->
              /\ stopOnce' = "running"
              /\ cancelled' = TRUE
              /\ history' = Bump(history, "cancels")
              /\ stoppc' = [stoppc EXCEPT ![t] = "closeConn"]
         [] stopOnce = "running" ->
              /\ stoppc' = [stoppc EXCEPT ![t] = "blocked"]
              /\ UNCHANGED <<stopOnce, cancelled, history>>
         [] OTHER ->
              /\ stoppc' = [stoppc EXCEPT ![t] = "returned"]
              /\ UNCHANGED <<stopOnce, cancelled, history>>
    /\ UNCHANGED <<serverVars, config, conn, mu, writeMu, startOnce, startCalls, wg, retryCount, pc,
                   local, transport, writing, pingVars, sendVars, calls, obs,
                   episode>>

\* Stop: c.closeConn(), up to the close frame being written
Stop_closeConn(t) ==
    /\ stoppc[t] = "closeConn"
    /\ ~mu
    /\ history' = Bump(history, "stopCloses")
    /\ IF conn = 0
         THEN /\ stoppc' = [stoppc EXCEPT ![t] = "wait"]
              /\ UNCHANGED <<mu, writing>>
         ELSE /\ closeConnBegin
              /\ stoppc' = [stoppc EXCEPT ![t] = "closing"]
    /\ UNCHANGED <<serverVars, config, conn, writeMu, onceVars, wg, cancelled, retryCount, pc,
                   local, transport, pingVars, sendVars, calls, obs, episode>>

\* Stop: closeConn() closes the transport and clears c.conn
Stop_closeConnEnd(t) ==
    /\ stoppc[t] = "closing"
    /\ closeConnEnd
    /\ stoppc' = [stoppc EXCEPT ![t] = "wait"]
    /\ UNCHANGED <<serverVars, config, writeMu, onceVars, wg, cancelled, retryCount, pc,
                   local, pingVars, sendVars, calls, obs, episode, history>>

\* Stop: c.wg.Wait() returns
Stop_wait(t) ==
    /\ stoppc[t] = "wait"
    /\ wg = 0
    /\ stoppc' = [stoppc EXCEPT ![t] = "fire"]
    /\ UNCHANGED <<serverVars, config, conn, mu, writeMu, onceVars, wg, cancelled, retryCount, pc,
                   local, transport, writing, pingVars, sendVars, calls, obs,
                   episode, history>>

\* Stop: c.callbacks.Stopped(); the Once is done; return
Stop_fire(t) ==
    /\ stoppc[t] = "fire"
    /\ calls' = Bump(calls, "Stopped")
    /\ stopOnce' = "done"
    /\ stoppc' = [stoppc EXCEPT ![t] = "returned"]
    /\ UNCHANGED <<serverVars, config, conn, mu, writeMu, startOnce, startCalls, wg, cancelled,
                   retryCount, pc, local, transport, writing, pingVars, sendVars,
                   obs, episode, history>>

\* Stop: a caller that waited in stopOnce.Do returns once the body has run
Stop_unblock(t) ==
    /\ stoppc[t] = "blocked"
    /\ stopOnce = "done"
    /\ stoppc' = [stoppc EXCEPT ![t] = "returned"]
    /\ UNCHANGED <<serverVars, config, conn, mu, writeMu, onceVars, wg, cancelled, retryCount, pc,
                   local, transport, writing, pingVars, sendVars, calls, obs,
                   episode, history>>

\* ------------------------------------------------- Stop called in a callback
\* read: ReadMessage returns a message; OnMessage(msg) is entered, and its
\* body is user code that may call c.Stop() on this goroutine
read_messageCallback(r) ==
    /\ pc[r] = "reading"
    /\ transport[local[r].readConn] = "open"
    /\ obs.msgs < MaxMsgs
    /\ obs' = Bump(obs, "msgs")
    /\ pc' = [pc EXCEPT ![r] = "onMessage"]
    /\ UNCHANGED <<serverVars, config, conn, mu, writeMu, onceVars, wg, cancelled, retryCount, local,
                   transport, writing, pingVars, sendVars, stoppc, calls,
                   episode, history>>

\* the Stop() call made by the OnMessage body running on run goroutine r
CallbackStop(r) ==
    /\ pc[r] = "onMessage"
    /\ \/ Stop_enter(r)
       \/ Stop_closeConn(r)
       \/ Stop_closeConnEnd(r)
       \/ Stop_wait(r)
       \/ Stop_fire(r)
       \/ Stop_unblock(r)

\* read: OnMessage(msg) returns, without having called Stop or after its
\* Stop() call returned; the read loop continues
read_messageReturn(r) ==
    /\ pc[r] = "onMessage"
    /\ stoppc[r] \in {"idle", "returned"}
    /\ stoppc' = [stoppc EXCEPT ![r] = "idle"]
    /\ pc' = [pc EXCEPT ![r] = "readloop"]
    /\ UNCHANGED <<serverVars, config, conn, mu, writeMu, onceVars, wg, cancelled, retryCount, local,
                   transport, writing, pingVars, sendVars, calls, obs,
                   episode, history>>

\* ------------------------------------------------------------------ server
\* acceptLoop: an upgrade request of identifier id is accepted: its handle is
\* inserted in the registry, OnConnect(id) fires and its read loop is spawned
Server_accept(id) ==
    /\ shutdown.pc = "idle"
    /\ handle[id] = "none"
    /\ clients' = clients \cup {id}
    /\ handle' = [handle EXCEPT ![id] = "open"]
    /\ readLoop' = [readLoop EXCEPT ![id] = "reading"]
    /\ UNCHANGED <<clientVars, bcast, shutdown, srv>>

\* the peer closes the connection of id, or its network fails
Server_peerClose(id) ==
    /\ handle[id] = "open"
    /\ handle' = [handle EXCEPT ![id] = "closed"]
    /\ srv' = [srv EXCEPT !.cause[id] = "peer"]
    /\ UNCHANGED <<clientVars, clients, readLoop, bcast, shutdown>>

\* read loop of id: the blocking read returns its terminal error
Server_readError(id) ==
    /\ readLoop[id] = "reading"
    /\ handle[id] = "closed"
    /\ readLoop' = [readLoop EXCEPT ![id] = "failed"]
    /\ UNCHANGED <<clientVars, clients, handle, bcast, shutdown, srv>>

\* read loop of id, after the terminal error: remove the entry of id and fire
\* OnDisconnect(id, err) unless the error is a side effect of Shutdown; exit
Server_readRemove(id) ==
    /\ readLoop[id] = "failed"
    /\ clients' = clients \ {id}
    /\ srv' = [srv EXCEPT !.removed[id] = @ + 1,
                          !.onDisconnect[id] = IF srv.cause[id] = "shutdown" THEN @ ELSE @ + 1]
    /\ readLoop' = [readLoop EXCEPT ![id] = "exited"]
    /\ UNCHANGED <<clientVars, handle, bcast, shutdown>>

\* a Send that evicts the entry of a client it could not write to
Server_SendEvicts(id) ==
    /\ srv' = [srv EXCEPT !.lastSend = IF id \notin clients THEN "UnknownClient"
                                       ELSE IF handle[id] = "open" THEN "ok" ELSE "err"]
    /\ clients' = IF id \in clients /\ handle[id] # "open" THEN clients \ {id} ELSE clients
    /\ UNCHANGED <<clientVars, handle, readLoop, bcast, shutdown>>

\* Send(id, payload): UnknownClient without an entry for id, else the result
\* of the write on its handle
Server_Send(id) ==
    /\ srv' = [srv EXCEPT !.lastSend = IF id \notin clients THEN "UnknownClient"
                                       ELSE IF handle[id] = "open" THEN "ok" ELSE "err"]
    /\ UNCHANGED <<clientVars, clients, handle, readLoop, bcast, shutdown>>

\* Broadcast(payload): take the snapshot of the registry entries
Broadcast_snapshot ==
    /\ bcast.pc \in {"idle", "done"}
    /\ bcast' = [BcastIdle EXCEPT !.pc = "sending", !.snapshot = clients, !.todo = clients,
                                  !.closedAtSnapshot = {id \in clients : handle[id] = "closed"}]
    /\ UNCHANGED <<clientVars, clients, handle, readLoop, shutdown, srv>>

\* a Broadcast that gives up at the first entry it cannot write to
Broadcast_sendAborts(id) ==
    /\ bcast.pc = "sending"
    /\ id \in bcast.todo
    /\ bcast' = IF handle[id] = "open"
                  THEN [bcast EXCEPT !.todo = @ \ {id}, !.attempts[id] = @ + 1,
                                     !.received = @ \cup {id}]
                  ELSE [bcast EXCEPT !.todo = {}, !.attempts[id] = @ + 1,
                                     !.failed = @ \cup {id}, !.onError = @ + 1]
    /\ UNCHANGED <<clientVars, clients, handle, readLoop, shutdown, srv>>

\* Broadcast: send on one entry of the snapshot; a failure is reported with
\* OnError and the iteration goes on
Broadcast_send(id) ==
    /\ bcast.pc = "sending"
    /\ id \in bcast.todo
    /\ bcast' = IF handle[id] = "open"
                  THEN [bcast EXCEPT !.todo = @ \ {id}, !.attempts[id] = @ + 1,
                                     !.received = @ \cup {id}]
                  ELSE [bcast EXCEPT !.todo = @ \ {id}, !.attempts[id] = @ + 1,
                                     !.failed = @ \cup {id}, !.onError = @ + 1]
    /\ UNCHANGED <<clientVars, clients, handle, readLoop, shutdown, srv>>

\* Broadcast returns, every entry of the snapshot tried
Broadcast_return ==
    /\ bcast.pc = "sending"
    /\ bcast.todo = {}
    /\ bcast' = [bcast EXCEPT !.pc = "done"]
    /\ UNCHANGED <<clientVars, clients, handle, readLoop, shutdown, srv>>

\* Shutdown(): the first call stops the accept loop and goes on to close the
\* registered handles (later calls do nothing)
Shutdown_enter ==
    /\ shutdown.pc = "idle"
    /\ shutdown' = [pc |-> "closing", todo |-> clients]
    /\ UNCHANGED <<clientVars, clients, handle, readLoop, bcast, srv>>

\* Shutdown: close the handle of one registered identifier
Shutdown_close(id) ==
    /\ shutdown.pc = "closing"
    /\ id \in shutdown.todo
    /\ shutdown' = [shutdown EXCEPT !.todo = @ \ {id}]
    /\ IF handle[id] = "open"
         THEN /\ handle' = [handle EXCEPT ![id] = "closed"]
              /\ srv' = [srv EXCEPT !.cause[id] = "shutdown"]
         ELSE UNCHANGED <<handle, srv>>
    /\ UNCHANGED <<clientVars, clients, readLoop, bcast>>

\* Shutdown: every read loop has exited; OnStop fires and Shutdown returns
Shutdown_wait ==
    /\ shutdown.pc = "closing"
    /\ shutdown.todo = {}
    /\ \A id \in ServerIdents : readLoop[id] \in {"none", "exited"}
    /\ shutdown' = [shutdown EXCEPT !.pc = "done"]
    /\ UNCHANGED <<clientVars, clients, handle, readLoop, bcast, srv>>

\* ------------------------------------------------------------ specification
\* steps of the run goroutine r: run, subscribe, read (called inline)
RunStep(r) ==
    \/ run_select(r)
    \/ subscribe_dialFail(r)
    \/ subscribe_dialOk(r)
    \/ subscribe_install(r)
    \/ run_connected(r)
    \/ run_dialFailed(r)
    \/ Tick(r)
    \/ run_waitCancelled(r)
    \/ run_waitElapsed(r)
    \/ read_getConn(r)
    \/ read_select(r)
    \/ read_message(r)
    \/ read_error(r)
    \/ read_disconnect(r)
    \/ run_pingCancel(r)
    \/ run_closeConn(r)
    \/ run_closeConnEnd(r)

\* steps of the keepalive goroutine started for connection k
PingStep(k) ==
    \/ ping_done(k)
    \/ ping_tick(k)
    \/ ping_writeBegin(k)
    \/ ping_writeEnd(k)

\* steps of a Send(msg) call on caller thread t
SendStep(t) ==
    \/ Send_getConn(t)
    \/ Send_writeBegin(t)
    \/ Send_writeEnd(t)

\* steps of a Stop() call on caller thread t
StopStep(t) ==
    \/ Stop_enter(t)
    \/ Stop_closeConn(t)
    \/ Stop_closeConnEnd(t)
    \/ Stop_wait(t)
    \/ Stop_fire(t)
    \/ Stop_unblock(t)

\* The whole client: every goroutine and every caller.
Next ==
    \/ Start
    \/ \E r \in RunIds : RunStep(r)
    \/ \E k \in ConnIds : PeerBreak(k)
    \/ \E k \in ConnIds : PingStep(k)
    \/ \E t \in SendIds : SendStep(t)
    \/ \E t \in StopIds : StopStep(t)

Spec == Init /\ [][Next]_vars

\* The session lifecycle alone: Start, Stop, the run goroutine and the peer.
\* Send and ping write only c.writeMu, the frame writes in progress and their
\* own locals, none of which Start, Stop, run, subscribe, read or closeConn
\* reads, so every behaviour of Spec, restricted to the other variables, is a
\* behaviour of SpecLifecycle.
NextLifecycle ==
    \/ Start
    \/ \E r \in RunIds : RunStep(r)
    \/ \E k \in ConnIds : PeerBreak(k)
    \/ \E t \in StopIds : StopStep(t)

SpecLifecycle == Init /\ [][NextLifecycle]_vars

\* The lifecycle and the callers of Send, without the keepalive goroutines
\* (which never write c.conn, the one variable Send's first step reads).
NextSend ==
    \/ NextLifecycle
    \/ \E t \in SendIds : SendStep(t)

SpecSend == Init /\ [][NextSend]_vars

\* The lifecycle with an OnMessage callback that may call Stop(). Every
\* goroutine that can take a step eventually takes one: a dial, a write and
\* a callback body return, and the scheduler runs every runnable goroutine.
NextCallback ==
    \/ NextLifecycle
    \/ \E r \in RunIds : read_messageCallback(r)
    \/ \E r \in RunIds : CallbackStop(r)
    \/ \E r \in RunIds : read_messageReturn(r)

SpecCallback == Init /\ [][NextCallback]_vars /\ WF_vars(NextCallback)

\* The lifecycle and the keepalive goroutines, without the callers of Send,
\* for one configuration: what a keepalive goroutine does depends on neither
\* MaxRetries nor RetryInterval.
InitKeepalive == Init /\ config = [MaxRetries |-> 2, RetryInterval |-> 1]

NextKeepalive ==
    \/ NextLifecycle
    \/ \E k \in ConnIds : PingStep(k)

SpecKeepalive == InitKeepalive /\ [][NextKeepalive]_vars

\* The server process: the accept loop, the read loop of each connection, the
\* peers, and the callers of Send, Broadcast and Shutdown. The client session is
\* another process; its variables keep their initial values here.
InitServer == Init /\ config = [MaxRetries |-> 0, RetryInterval |-> 1]

NextServer ==
    \/ \E id \in ServerIdents : Server_accept(id)
    \/ \E id \in ServerIdents : Server_peerClose(id)
    \/ \E id \in ServerIdents : Server_readError(id)
    \/ \E id \in ServerIdents : Server_readRemove(id)
    \/ \E id \in ServerIdents : Server_Send(id)
    \/ Broadcast_snapshot
    \/ \E id \in ServerIdents : Broadcast_send(id)
    \/ Broadcast_return
    \/ Shutdown_enter
    \/ \E id \in ServerIdents : Shutdown_close(id)
    \/ Shutdown_wait

SpecServer == InitServer /\ [][NextServer]_vars

\* ------------------------------------------------------------------ claims
\* no dial of this session has succeeded so far
NoSuccess == \A k \in ConnIds : transport[k] = "undialed"

\* the positions of a run goroutine inside read()
ReadPcs == {"readentry", "readloop", "reading", "readerr"}

\* the run goroutine gave up: it returned although c.ctx is not cancelled
Exhausted(r) == pc[r] = "done" /\ ~cancelled

\* the number of dial attempts a session makes when every dial fails
AttemptLimit == IF config.MaxRetries < 1 THEN 1 ELSE config.MaxRetries

\* C1, as stated: when every dial fails and stop() is not called, the
\* session makes exactly MaxRetries dial attempts, never more afterwards,
\* with one OnError per failed dial and exactly one "max retries exceeded"
\* OnError.
C1_ExactlyMaxRetriesAttempts ==
    NoSuccess =>
        /\ episode.dials <= config.MaxRetries
        /\ calls.OnErrorMax <= 1
        /\ \A r \in RunIds : Exhausted(r) =>
              /\ episode.dials = config.MaxRetries
              /\ episode.dialErrors = config.MaxRetries
              /\ calls.OnErrorMax = 1

\* C1, amended: when every dial fails and stop() is not called, the session
\* makes exactly MaxRetries dial attempts if MaxRetries >= 1 and exactly one
\* if MaxRetries <= 0, never more afterwards, with one OnError per failed
\* dial and exactly one "max retries exceeded" OnError.
C1_ExactlyAttemptLimit ==
    NoSuccess =>
        /\ episode.dials <= AttemptLimit
        /\ calls.OnErrorMax <= 1
        /\ \A r \in RunIds : Exhausted(r) =>
              /\ episode.dials = AttemptLimit
              /\ episode.dialErrors = AttemptLimit
              /\ calls.OnErrorMax = 1

\* C1 witness: three retries configured, all three dials failed, the session
\* gave up and was never stopped
C1_Witness ==
    /\ NoSuccess
    /\ config.MaxRetries = 3
    /\ Exhausted("r1")
    /\ episode.dials = 3
    /\ calls.OnErrorMax = 1

\* C2, as stated: on one connection at most one frame write (message, ping
\* or close frame) is in progress at any time.
C2_NoOverlappingWrites == \A k \in ConnIds : InFlight(k) <= 1

\* C3, as stated: once Stopped() has fired, no read loop and no keepalive
\* goroutine of the session is still running.
C3_AllExitedAtOnStop ==
    calls.Stopped > 0 =>
        /\ \A r \in RunIds : pc[r] \notin ReadPcs
        /\ \A k \in ConnIds : pingpc[k] \in {"none", "exited", "failed"}

\* C4: however many Stop() calls are made, Stopped() fires at most once and
\* exactly once when a call has returned; c.cancel() and Stop's closeConn()
\* run at most once, so the later calls cancel and close nothing.
C4_StopIdempotent ==
    /\ calls.Stopped <= 1
    /\ history.cancels <= 1
    /\ history.stopCloses <= 1
    /\ (\E t \in StopIds : stoppc[t] = "returned") => calls.Stopped = 1

\* C4 witness: both Stop() calls have returned, the first one having closed
\* an installed connection
C4_Witness ==
    /\ \A t \in StopIds : stoppc[t] = "returned"
    /\ calls.Stopped = 1
    /\ history.stopCloses = 1
    /\ \E k \in ConnIds : transport[k] = "closed" /\ obs.cause = "local"

\* C5: at most one connection is dialed and not yet closed, and while a dial
\* is in progress no connection is live and c.conn is nil.
C5_OneLiveConnection ==
    /\ Cardinality(Live) <= 1
    /\ \A r \in RunIds : pc[r] = "dial" => (conn = 0 /\ Live = {})

\* C5 witness: the second dial of the session succeeded while Stop() had
\* already cancelled the context
C5_Witness ==
    /\ cancelled
    /\ pc["r1"] = "dialed"
    /\ local["r1"].conn = 2
    /\ transport[1] = "closed"

\* C6: retryCount is 0 while the run goroutine is inside read(), and in the
\* backoff wait retryCount is the number of dial failures since the last
\* successful dial (failures before that dial are not counted).
C6_RetryCountResets ==
    \A r \in RunIds :
        /\ pc[r] \in ReadPcs => retryCount = 0
        /\ pc[r] = "wait" => retryCount = episode.dialErrors

\* C6 witness: a dial succeeded after failures (retryCount was 2), the
\* connection was lost, and the run goroutine waits after one new failure
C6_Witness ==
    /\ pc["r1"] = "wait"
    /\ history.overwritten = 2
    /\ transport[1] = "closed"
    /\ episode.dialErrors = 1
    /\ local["r1"].waitTime = config.RetryInterval

\* C7: after the k-th consecutive failed dial, 1 <= k < MaxRetries, the timer
\* is set to k * RetryInterval and the next dial starts when exactly that
\* much time has passed; there is no wait once k reaches MaxRetries.
C7_LinearBackoff ==
    \A r \in RunIds :
        /\ pc[r] = "wait" =>
              /\ episode.dialErrors >= 1
              /\ episode.dialErrors < config.MaxRetries
              /\ local[r].waitTime = episode.dialErrors * config.RetryInterval
        /\ (pc[r] = "dial" /\ episode.dialErrors >= 1) =>
              local[r].waited = episode.dialErrors * config.RetryInterval

\* C7 witness: maxRetries 3, retryInterval 1, the third dial starts after a
\* wait of 2
C7_Witness ==
    /\ config.MaxRetries = 3
    /\ config.RetryInterval = 1
    /\ pc["r1"] = "dial"
    /\ episode.dialErrors = 2
    /\ local["r1"].waited = 2

\* the run goroutine has finished the iteration that served connection k
IterationOver(k) == \A r \in RunIds : local[r].conn # k

\* C8: for the connection installed last, OnDisconnect fires at most once;
\* never when its read failed because the client closed it (Stop's
\* closeConn); exactly once when its read error has been handled and Stop()
\* has not been called; and once the iteration is over c.conn no longer
\* points to it and its transport is closed.
C8_DisconnectOnReadError ==
    /\ obs.disc <= 1
    /\ obs.cause = "local" => obs.disc = 0
    /\ (obs.cause # "none" /\ ~cancelled /\ \A r \in RunIds : pc[r] # "readerr")
          => obs.disc = 1
    /\ (obs.cause # "none" /\ IterationOver(obs.conn))
          => (conn # obs.conn /\ transport[obs.conn] = "closed")

\* C8 witness: the second connection's read failed because Stop() closed
\* it, no OnDisconnect fired for it, and the pointer is cleared
C8_Witness ==
    /\ obs.conn = 2
    /\ obs.cause = "local"
    /\ obs.disc = 0
    /\ IterationOver(2)
    /\ conn = 0

\* a step in which caller t's Send call starts while c.conn is nil
SendNilStep(t) ==
    /\ sendpc[t] = "idle"
    /\ conn = 0
    /\ <<sendpc[t], sendConn[t], sendResult[t]>>' # <<sendpc[t], sendConn[t], sendResult[t]>>

\* C9: a Send call that finds c.conn nil returns "not connected" in that
\* same step, starts no frame write and changes nothing else; and a Send
\* call past that check always holds a connection.
C9_SendNotConnected ==
    /\ [](\A t \in SendIds : sendpc[t] # "idle" => sendConn[t] # 0)
    /\ [][\A t \in SendIds : SendNilStep(t) =>
              /\ sendResult'[t] = "notconnected"
              /\ sendpc'[t] = "idle"
              /\ UNCHANGED <<config, conn, mu, writeMu, onceVars, wg, cancelled,
                             retryCount, pc, local, transport, writing, pingVars,
                             stoppc, calls, obs, episode, history>>]_vars

\* C9 witness: Send returned "not connected" after a disconnect cleared
\* c.conn, while the run goroutine waits in backoff
C9_Witness ==
    /\ sendResult["s1"] = "notconnected"
    /\ sendpc["s1"] = "idle"
    /\ conn = 0
    /\ transport[1] = "closed"
    /\ pc["r1"] = "wait"

\* C10: however many Start() calls are made, at most one run goroutine
\* exists, so at most one dial is in progress and c.wg never exceeds 1.
C10_SingleRunLoop ==
    /\ Cardinality({r \in RunIds : pc[r] # "unborn"}) <= 1
    /\ Cardinality({r \in RunIds : pc[r] = "dial"}) <= 1
    /\ wg <= 1

\* C10 witness: Start() was called twice and one run goroutine is dialing
C10_Witness ==
    /\ startCalls = 2
    /\ pc["r1"] = "dial"
    /\ pc["r2"] = "unborn"

\* C11: after the run loop gave up because retryCount reached MaxRetries, no
\* dial happens on its own, and a new Start() call by the caller makes the
\* session try to connect again: the call leaves a run goroutine alive.
C11_StartAfterExhaustionRetries ==
    /\ [](\A r \in RunIds : Exhausted(r) => \A q \in RunIds : pc[q] \in {"unborn", "done"})
    /\ [][((\E r \in RunIds : Exhausted(r)) /\ startCalls' = startCalls + 1)
            => \E q \in RunIds : pc'[q] \notin {"unborn", "done"}]_vars

\* C12: Stop() eventually returns for every caller, a thread of the
\* application or a goroutine of the session executing a callback, from every
\* state of the session.
C12_StopReturns ==
    \A c \in StopCallers : (stoppc[c] # "idle") ~> (stoppc[c] = "returned")

\* what a ping write failure of keepalive goroutine k looks like as a step
PingFails(k) == pingpc[k] = "write" /\ pingpc'[k] = "failed"

\* C13: a ping whose write fails makes the keepalive goroutine call OnError
\* and return, for good, and changes nothing else: the transport is not
\* closed, c.conn is not cleared, retryCount, the run loop and the other
\* callbacks are untouched; a write on a closed transport always fails.
C13_PingFailureOnlyEndsKeepalive ==
    [][\A k \in ConnIds :
          /\ PingFails(k) =>
                UNCHANGED <<config, conn, mu, onceVars, wg, cancelled, retryCount, pc,
                            local, transport, pingCancelled, sendVars, stoppc, calls,
                            obs, episode, history>>
          /\ (pingpc[k] = "write" /\ pingpc'[k] # "write" /\ transport[pingConn[k]] = "closed")
                => PingFails(k)
          /\ pingpc[k] = "failed" => pingpc'[k] = "failed"]_vars

\* a keepalive goroutine has failed while its connection is still installed,
\* open towards the client and being read
C13_Witness ==
    \E k \in ConnIds :
        /\ pingpc[k] = "failed"
        /\ conn = k
        /\ transport[k] = "broken"
        /\ \E r \in RunIds : pc[r] = "reading"

\* the step invokes OnError: run after a failed dial (with the dial error or
\* with "max retries exceeded"), or ping after a failed write
OnErrorFires ==
    \/ episode'.dialErrors = episode.dialErrors + 1
    \/ calls'.OnErrorMax = calls.OnErrorMax + 1
    \/ \E k \in ConnIds : PingFails(k)

\* C14: every recoverable error is reported through OnError: the step that
\* handles a failed dial, a failed read not caused by Stop(), a failed ping
\* write or a failed Send write invokes OnError.
C14_EveryErrorReachesOnError ==
    [][/\ \A r \in RunIds : (pc[r] = "dialfail" /\ pc'[r] # "dialfail") => OnErrorFires
       /\ \A r \in RunIds : (pc[r] = "readerr" /\ pc'[r] # "readerr" /\ ~cancelled)
                                => OnErrorFires
       /\ \A k \in ConnIds : (pingpc[k] = "write" /\ pingpc'[k] # "write"
                                  /\ transport[pingConn[k]] = "closed") => OnErrorFires
       /\ \A t \in SendIds : (sendpc[t] = "write" /\ sendResult'[t] = "err")
                                => OnErrorFires]_vars

\* C15: Broadcast is best-effort over its snapshot: when it returns, every
\* entry of the snapshot was tried exactly once, whatever failed on the
\* others; an entry whose handle was already closed failed, an entry whose
\* handle is still open received the message exactly once, and OnError fired
\* once per failed entry, while entries are inserted and removed concurrently.
C15_BroadcastBestEffort ==
    bcast.pc = "done" =>
        /\ \A id \in ServerIdents : bcast.attempts[id] = IF id \in bcast.snapshot THEN 1 ELSE 0
        /\ bcast.received \cup bcast.failed = bcast.snapshot
        /\ bcast.received \cap bcast.failed = {}
        /\ bcast.closedAtSnapshot \subseteq bcast.failed
        /\ \A id \in bcast.snapshot : handle[id] = "open" => id \in bcast.received
        /\ bcast.onError = Cardinality(bcast.failed)

\* a Broadcast over three entries of which exactly one was already closed
\* has returned: the two others received the message, OnError fired once,
\* and the closed entry was removed from the registry meanwhile
C15_Witness ==
    /\ bcast.pc = "done"
    /\ bcast.snapshot = ServerIdents
    /\ Cardinality(bcast.closedAtSnapshot) = 1
    /\ Cardinality(bcast.received) = 2
    /\ bcast.onError = 1
    /\ Cardinality(clients) = 2

\* C16: an entry leaves the registry only in the step in which its own read
\* loop handles its terminal read error, never in a step of Send, Broadcast
\* or Shutdown, and at most once; that step fires OnDisconnect(id, err)
\* unless Shutdown closed the connection; a read loop that exited has
\* removed its entry exactly once.
C16_RemovedOnceByReadLoop ==
    /\ [](\A id \in ServerIdents :
            /\ srv.removed[id] <= 1
            /\ srv.onDisconnect[id] <= srv.removed[id]
            /\ readLoop[id] = "exited" => (srv.removed[id] = 1 /\ id \notin clients)
            /\ id \in clients => srv.removed[id] = 0)
    /\ [][\A id \in ServerIdents : (id \in clients /\ id \notin clients') =>
            /\ readLoop[id] = "failed" /\ readLoop'[id] = "exited"
            /\ srv'.removed[id] = srv.removed[id] + 1
            /\ srv'.onDisconnect[id] =
                  srv.onDisconnect[id] + (IF srv.cause[id] = "shutdown" THEN 0 ELSE 1)]_vars

\* one entry was removed after its peer closed, with OnDisconnect, another
\* after Shutdown closed it, without, and a Send to a removed identifier
\* returned UnknownClient
C16_Witness ==
    \E i, j \in ServerIdents :
        /\ srv.removed[i] = 1 /\ srv.cause[i] = "peer" /\ srv.onDisconnect[i] = 1
        /\ srv.removed[j] = 1 /\ srv.cause[j] = "shutdown" /\ srv.onDisconnect[j] = 0
        /\ srv.lastSend = "UnknownClient"
        /\ clients = {}

\* the keepalive goroutines that have been started and have not returned
AlivePings == {k \in ConnIds : pingpc[k] \in {"select", "lock", "write"}}

\* C17: a keepalive goroutine pings only the connection it was started for,
\* never a later one, and at most one keepalive goroutine is alive at a time.
C17_KeepaliveOwnConnection ==
    /\ \A k \in ConnIds : pingpc[k] \in {"lock", "write"} => pingConn[k] = k
    /\ Cardinality(AlivePings) <= 1

\* C18: the backoff wait is cancellable: with c.ctx cancelled while run waits
\* between attempts, run can return at once, whatever is left of the delay,
\* and from then on it makes no dial attempt and fires neither a dial
\* OnError nor the "max retries exceeded" OnError.
C18_BackoffCancellable ==
    /\ [](\A r \in RunIds : (pc[r] = "wait" /\ cancelled) => ENABLED run_waitCancelled(r))
    /\ [][\A r \in RunIds : (cancelled /\ pc[r] \in {"wait", "top"}) =>
            /\ pc'[r] \in {"wait", "top", "done"}
            /\ episode' = episode
            /\ retryCount' = retryCount
            /\ calls'.OnErrorMax = calls.OnErrorMax]_vars

\* run returned out of its first backoff wait because of Stop(): one failed
\* dial, no wait that ran to its end, no "max retries exceeded"
C18_Witness ==
    \E r \in RunIds :
        /\ pc[r] = "done"
        /\ cancelled
        /\ NoSuccess
        /\ retryCount = 1
        /\ config.MaxRetries > 1
        /\ episode.dials = 1
        /\ local[r].waited = 0
        /\ calls.OnErrorMax = 0

\* a Stop() call has returned
StopReturned == \E t \in StopIds : stoppc[t] = "returned"

\* C19: cancellation is terminal: once a Stop() call has returned, c.conn is
\* nil and c.ctx cancelled for good, no run goroutine is past the head of its
\* loop and none starts a dial, also one spawned by a Start() that raced with
\* or followed the Stop(), and every Send call returns "not connected".
C19_CancellationTerminal ==
    /\ [](StopReturned =>
            /\ conn = 0
            /\ cancelled
            /\ \A r \in RunIds : pc[r] \in {"unborn", "top", "done"})
    /\ [][StopReturned =>
            /\ StopReturned'
            /\ \A r \in RunIds : pc'[r] # "dial"
            /\ episode' = episode
            /\ \A t \in SendIds : sendpc[t] = "idle" =>
                  /\ sendpc'[t] = "idle"
                  /\ sendResult'[t] \in {sendResult[t], "notconnected"}]_vars

\* Stop() returned before the session was ever started; the Start() call
\* that followed spawned a run goroutine, which returned without dialing,
\* and a Send call returned "not connected"
C19_Witness ==
    /\ StopReturned
    /\ calls.Stopped = 1
    /\ startOnce
    /\ \E r \in RunIds : pc[r] = "done"
    /\ episode.dials = 0
    /\ \E t \in SendIds : sendResult[t] = "notconnected"

\* the run goroutine is inside read() on the connection installed last
ReadingLatest == \E r \in RunIds : pc[r] \in ReadPcs /\ local[r].readConn = obs.conn

====
